---- MODULE Spec2Model ----
(***************************************************************************)
(* A model of nutype_derive's attribute parsers:                           *)
(*   - string/parse.rs: parse_attributes / parse_raw_attributes,            *)
(*                      parse_validate_attrs / parse_validation_rule,       *)
(*                      parse_sanitize_attrs / parse_sanitize_attr          *)
(*   - parse.rs:        parse_type_name_and_inner_type                      *)
(* A call is drawn in Init (the operation and its input); the actions run   *)
(* the operation to its result.                                             *)
(***************************************************************************)
EXTENDS Integers, Sequences, FiniteSets, TLC

VARIABLES call, pc, pos, output, result

vars == <<call, pc, pos, output, result>>

----------------------------------------------------------------------------
(* Bounds of the model. *)

\* longest raw (unstructured) token stream
MaxTokens == 4
\* most rules in a written rule list
MaxRules == 3
\* most consecutive commas before a rule of a written validator list
MaxCommas == 2
\* most fields of the decorated type
MaxFields == 2
\* most rules in one group of a whole attribute
MaxGroupRules == 2

----------------------------------------------------------------------------
(* Tokens (proc_macro2::TokenTree) and spans.  A token of the input carries *)
(* the span <<i, i>> of its place i in the stream; Span::call_site() is no  *)
(* place of the stream.                                                     *)

Ident(s)   == [kind |-> "Ident", text |-> s]
Punct(s)   == [kind |-> "Punct", text |-> s]
Literal(s) == [kind |-> "Literal", text |-> s]
Group(s)   == [kind |-> "Group", text |-> s]

call_site == <<0, 0>>

Stamp(toks) ==
    [i \in DOMAIN toks |->
        [kind |-> toks[i].kind, text |-> toks[i].text, span |-> <<i, i>>]]

Unstamp(toks) ==
    [i \in DOMAIN toks |-> [kind |-> toks[i].kind, text |-> toks[i].text]]

\* TokenTree::to_string
to_string(token) == token.text

(* Results: Ok(v), Err(syn::Error) and an abort of the call (a panic). *)
Ok(v) == [tag |-> "Ok", value |-> v]
Err(msg, name, span) == [tag |-> "Err", msg |-> msg, name |-> name, span |-> span]
Panic == [tag |-> "Panic"]
Running == [tag |-> "Running"]

----------------------------------------------------------------------------
(* crate::common::parse: the token cursor utilities.  Their source is not   *)
(* among the files; they are modelled from the specification, section 4.1.  *)

is_comma(token) == token.kind = "Punct" /\ token.text = ","

is_eq(token) == token.kind = "Punct" /\ token.text = "="

\* the value of an integer literal's text; -1 when the text is no integer
LitValue(text) ==
    CASE text = "0" -> 0
      [] text = "3" -> 3
      [] text = "7" -> 7
      [] text = "10" -> 10
      [] text = "13" -> 13
      [] OTHER -> -1

IsNumber(token) == token.kind = "Literal" /\ LitValue(token.text) >= 0

\* Ok for an identifier, an error at the token otherwise
try_unwrap_ident(token) ==
    IF token.kind = "Ident"
    THEN Ok(token)
    ELSE Err("Expected identifier", token.text, token.span)

\* the place an error about a missing token is reported at: the last token
\* the cursor has passed
LastSpan(tokens, p) == tokens[p].span

\* consumes `=` and one numeric literal from the cursor (tokens, p)
parse_value_as_number(tokens, p) ==
    IF p >= Len(tokens)
    THEN Err("Expected =", "", LastSpan(tokens, p))
    ELSE IF ~is_eq(tokens[p + 1])
    THEN Err("Expected =", tokens[p + 1].text, tokens[p + 1].span)
    ELSE IF p + 1 >= Len(tokens)
    THEN Err("Expected number", "", LastSpan(tokens, p + 1))
    ELSE IF ~IsNumber(tokens[p + 2])
    THEN Err("Expected number", tokens[p + 2].text, tokens[p + 2].span)
    ELSE [tag |-> "Ok", value |-> LitValue(tokens[p + 2].text), rest |-> p + 2]

----------------------------------------------------------------------------
(* string/parse.rs: validators *)

MaxLen(n) == [rule |-> "MaxLen", n |-> n]
MinLen(n) == [rule |-> "MinLen", n |-> n]
Present == [rule |-> "Present", n |-> 0]

Spanned(item, span) == [item |-> item, span |-> span]

None == [tag |-> "None"]
Some(item, rest) == [tag |-> "Some", item |-> item, rest |-> rest]

\* validation_rule_of with the error of the numeric argument dropped: the
\* rule takes the default length and the cursor stays where it is
validation_rule_of_defaulting(ident, tokens, p) ==
    CASE to_string(ident) = "max_len" ->
            LET r == parse_value_as_number(tokens, p)
            IN  IF r.tag = "Err" THEN Some(Spanned(MaxLen(0), ident.span), p)
                ELSE Some(Spanned(MaxLen(r.value), ident.span), r.rest)
      [] to_string(ident) = "min_len" ->
            LET r == parse_value_as_number(tokens, p)
            IN  IF r.tag = "Err" THEN Some(Spanned(MinLen(0), ident.span), p)
                ELSE Some(Spanned(MinLen(r.value), ident.span), r.rest)
      [] to_string(ident) = "present" ->
            Some(Spanned(Present, ident.span), p)
      [] OTHER ->
            Err("Unknown validation rule", to_string(ident), ident.span)

\* the rule of an identifier, its arguments read from the cursor (tokens, p)
validation_rule_of(ident, tokens, p) ==
    CASE to_string(ident) = "max_len" ->
            LET r == parse_value_as_number(tokens, p)
            IN  IF r.tag = "Err" THEN r
                ELSE Some(Spanned(MaxLen(r.value), ident.span), r.rest)
      [] to_string(ident) = "min_len" ->
            LET r == parse_value_as_number(tokens, p)
            IN  IF r.tag = "Err" THEN r
                ELSE Some(Spanned(MinLen(r.value), ident.span), r.rest)
      [] to_string(ident) = "present" ->
            Some(Spanned(Present, ident.span), p)
      [] OTHER ->
            Err("Unknown validation rule", to_string(ident), ident.span)

\* the place of the first token that is no comma after p tokens
RECURSIVE PastCommas(_, _)
PastCommas(tokens, p) ==
    IF p < Len(tokens) /\ tokens[p + 1].text = ","
    THEN PastCommas(tokens, p + 1)
    ELSE p + 1

\* parse_validation_rule with the comma test repeated until a token is no
\* comma
parse_validation_rule_skips_all_commas(tokens, p) ==
    IF p >= Len(tokens)
    THEN None
    ELSE LET i == PastCommas(tokens, p)
         IN  IF i > Len(tokens)
             THEN Panic
             ELSE LET u == try_unwrap_ident(tokens[i])
                  IN  IF u.tag = "Err" THEN u
                      ELSE validation_rule_of(u.value, tokens, i)

\* parse_validation_rule with a token that is no identifier taken as the end
\* of the rules
parse_validation_rule_stops_at_non_ident(tokens, p) ==
    IF p >= Len(tokens)
    THEN None
    ELSE LET i == IF to_string(tokens[p + 1]) = "," THEN p + 2 ELSE p + 1
         IN  IF i > Len(tokens)
             THEN Panic
             ELSE LET u == try_unwrap_ident(tokens[i])
                  IN  IF u.tag = "Err" THEN None
                      ELSE validation_rule_of(u.value, tokens, i)

\* one call of parse_validation_rule on the cursor (tokens, p): p tokens are
\* consumed already.  A leading "," is skipped once (iter.next().unwrap()
\* aborts when nothing follows it), then the token is taken as the rule name.
parse_validation_rule(tokens, p) ==
    IF p >= Len(tokens)
    THEN None
    ELSE LET i == IF to_string(tokens[p + 1]) = "," THEN p + 2 ELSE p + 1
         IN  IF i > Len(tokens)
             THEN Panic
             ELSE LET u == try_unwrap_ident(tokens[i])
                  IN  IF u.tag = "Err" THEN u
                      ELSE validation_rule_of(u.value, tokens, i)

\* the loop of parse_validate_attrs, run to its end
RECURSIVE validate_loop(_, _, _)
validate_loop(tokens, p, out) ==
    LET r == parse_validation_rule(tokens, p)
    IN  CASE r.tag = "Some" -> validate_loop(tokens, r.rest, Append(out, r.item))
          [] r.tag = "None" -> Ok(out)
          [] OTHER -> r

parse_validate_attrs(stream) == validate_loop(stream, 0, <<>>)

----------------------------------------------------------------------------
(* string/parse.rs: sanitizers *)

Trim == [rule |-> "Trim", ts |-> <<>>]
Lowercase == [rule |-> "Lowercase", ts |-> <<>>]
Uppercase == [rule |-> "Uppercase", ts |-> <<>>]
With(ts) == [rule |-> "With", ts |-> ts]

\* Span::join: the span from the first to the second where the build has
\* it (can_join), None otherwise
join(a, b, can_join) == IF can_join THEN Ok(<<a[1], b[2]>>) ELSE None

\* parse_sanitize_attr with the `=` of `with` tested but left in the payload
parse_sanitize_attr_keeps_eq(tokens, can_join) ==
    IF tokens # <<>> /\ tokens[1].kind = "Ident"
    THEN LET ident == tokens[1]
         IN  CASE to_string(ident) = "trim" -> Ok(Spanned(Trim, ident.span))
               [] to_string(ident) = "lowercase" -> Ok(Spanned(Lowercase, ident.span))
               [] to_string(ident) = "uppercase" -> Ok(Spanned(Uppercase, ident.span))
               [] to_string(ident) = "with" ->
                    IF Len(tokens) >= 2
                    THEN IF ~is_eq(tokens[2])
                         THEN LET span == join(ident.span, tokens[2].span, can_join)
                              IN  IF span.tag = "None"
                                  THEN Panic
                                  ELSE Err("Invalid syntax for with. Expected =", "", span.value)
                         ELSE Ok(Spanned(With(SubSeq(tokens, 2, Len(tokens))), ident.span))
                    ELSE Err("Invalid syntax for with. Missing =", "", ident.span)
               [] OTHER -> Err("Unknown sanitizer", to_string(ident), ident.span)
    ELSE Err("Invalid syntax.", "", call_site)

\* one run of tokens to one sanitizer
parse_sanitize_attr(tokens, can_join) ==
    IF tokens # <<>> /\ tokens[1].kind = "Ident"
    THEN LET ident == tokens[1]
         IN  CASE to_string(ident) = "trim" -> Ok(Spanned(Trim, ident.span))
               [] to_string(ident) = "lowercase" -> Ok(Spanned(Lowercase, ident.span))
               [] to_string(ident) = "uppercase" -> Ok(Spanned(Uppercase, ident.span))
               [] to_string(ident) = "with" ->
                    IF Len(tokens) >= 2
                    THEN IF ~is_eq(tokens[2])
                         THEN LET span == join(ident.span, tokens[2].span, can_join)
                              IN  IF span.tag = "None"
                                  THEN Panic
                                  ELSE Err("Invalid syntax for with. Expected =", "", span.value)
                         ELSE Ok(Spanned(With(SubSeq(tokens, 3, Len(tokens))), ident.span))
                    ELSE Err("Invalid syntax for with. Missing =", "", ident.span)
               [] OTHER -> Err("Unknown sanitizer", to_string(ident), ident.span)
    ELSE Err("Invalid syntax.", "", call_site)

\* the separator that ends the run starting after p tokens (Len + 1: none)
RECURSIVE RunEnd(_, _)
RunEnd(tokens, p) ==
    IF p >= Len(tokens) \/ is_comma(tokens[p + 1])
    THEN p + 1
    ELSE RunEnd(tokens, p + 1)

\* split_and_parse(tokens, is_comma, parse_sanitize_attr), one run at a time
\* from the cursor (tokens, p).  Its source is not among the files; from the
\* specification, section 4.1: maximal runs between separators, each parsed
\* in turn, the first error returned, an empty run rejected at the separator.
split_and_parse_run(tokens, p, can_join) ==
    IF p >= Len(tokens)
    THEN IF tokens # <<>> /\ is_comma(tokens[Len(tokens)])
         THEN Err("Empty rule", ",", tokens[Len(tokens)].span)
         ELSE None
    ELSE LET e == RunEnd(tokens, p)
         IN  IF e = p + 1
             THEN Err("Empty rule", ",", tokens[e].span)
             ELSE LET r == parse_sanitize_attr(SubSeq(tokens, p + 1, e - 1), can_join)
                  IN  IF r.tag = "Ok"
                      THEN Some(r.value, IF e > Len(tokens) THEN Len(tokens) ELSE e)
                      ELSE r

RECURSIVE split_and_parse(_, _, _, _)
split_and_parse(tokens, p, out, can_join) ==
    LET r == split_and_parse_run(tokens, p, can_join)
    IN  CASE r.tag = "Some" -> split_and_parse(tokens, r.rest, Append(out, r.item), can_join)
          [] r.tag = "None" -> Ok(out)
          [] OTHER -> r

parse_sanitize_attrs(stream, can_join) == split_and_parse(stream, 0, <<>>, can_join)

----------------------------------------------------------------------------
(* string/parse.rs: parse_attributes, the whole attribute *)

\* models.rs: the parsed, not yet validated, rules
RawNewtypeMeta(sanitizers, validators) ==
    [sanitizers |-> sanitizers, validators |-> validators]

\* models.rs: the validated rules
From(sanitizers) ==
    [meta |-> "From", sanitizers |-> sanitizers, validators |-> <<>>]
TryFrom(sanitizers, validators) ==
    [meta |-> "TryFrom", sanitizers |-> sanitizers, validators |-> validators]

\* crate::common::parse::parse_nutype_attributes.  Its source is not among
\* the files; from the specification, section 4.2: the groups are taken in
\* the order written, each handed to its parser, an absent group is an empty
\* list, an unknown group name is an error, the first error is returned.
RECURSIVE parse_groups(_, _, _, _)
parse_groups(groups, i, raw, can_join) ==
    IF i > Len(groups)
    THEN Ok(raw)
    ELSE CASE groups[i].name = "sanitize" ->
                LET r == parse_sanitize_attrs(groups[i].stream, can_join)
                IN  IF r.tag = "Ok"
                    THEN parse_groups(groups, i + 1,
                                      RawNewtypeMeta(r.value, raw.validators), can_join)
                    ELSE r
           [] groups[i].name = "validate" ->
                LET r == parse_validate_attrs(groups[i].stream)
                IN  IF r.tag = "Ok"
                    THEN parse_groups(groups, i + 1,
                                      RawNewtypeMeta(raw.sanitizers, r.value), can_join)
                    ELSE r
           [] OTHER -> Err("Unknown attribute", groups[i].name, <<"group", i>>)

parse_nutype_attributes(input, can_join) ==
    parse_groups(input, 1, RawNewtypeMeta(<<>>, <<>>), can_join)

parse_raw_attributes(input, can_join) == parse_nutype_attributes(input, can_join)

\* the validators that repeat the rule of an earlier one
Duplicates(v) ==
    {j \in DOMAIN v : \E i \in 1..(j - 1) : v[i].item.rule = v[j].item.rule}

\* the validators that, with an earlier one, ask for max_len < min_len
Unsatisfiable(v) ==
    {j \in DOMAIN v : \E i \in 1..(j - 1) :
        \/ v[i].item.rule = "MaxLen" /\ v[j].item.rule = "MinLen" /\ v[i].item.n < v[j].item.n
        \/ v[i].item.rule = "MinLen" /\ v[j].item.rule = "MaxLen" /\ v[j].item.n < v[i].item.n}

First(S) == CHOOSE j \in S : \A k \in S : j <= k

\* super::validate::validate_string_meta.  Its source is not among the
\* files; from the specification, section 4.4: a repeated rule is rejected at
\* its second occurrence, max_len < min_len at the rule parsed second, the
\* sanitizers pass unchanged, no validators make the infallible model.
validate_string_meta(raw) ==
    IF Duplicates(raw.validators) # {}
    THEN Err("Duplicate validator", "", raw.validators[First(Duplicates(raw.validators))].span)
    ELSE IF Unsatisfiable(raw.validators) # {}
    THEN Err("max_len is less than min_len", "",
             raw.validators[First(Unsatisfiable(raw.validators))].span)
    ELSE IF raw.validators = <<>>
    THEN Ok(From(raw.sanitizers))
    ELSE Ok(TryFrom(raw.sanitizers, raw.validators))

\* parse_raw_attributes(input).and_then(validate_string_meta)
parse_attributes(input, can_join) ==
    LET r == parse_raw_attributes(input, can_join)
    IN  IF r.tag = "Ok" THEN validate_string_meta(r.value) ELSE r

----------------------------------------------------------------------------
(* parse.rs: the decorated type and its inner type *)

\* TypePath::into_token_stream().to_string(): the tokens of the path
type_path_str(ty) == ty.tokens

InnerTypeString == [inner |-> "String", number |-> "-"]

\* models.rs: the variants enum NumberType declares
NumberType == {"I32"}

\* InnerType::Number(NumberType)
Number(n) == [inner |-> "Number", number |-> n]

\* no value: the expression names a variant NumberType does not declare
\* (error E0599 at its line, the crate is not built)
NoVariant(n) == [tag |-> "NoVariant", variant |-> n]

\* the value of the expression InnerType::Number(crate::models::NumberType::n)
number_variant(n) == IF n \in NumberType THEN Ok(Number(n)) ELSE NoVariant(n)

inner_type_of(tp) ==
    CASE tp = <<"String">> -> Ok(InnerTypeString)
      [] tp = <<"u8">> -> number_variant("U8")
      [] tp = <<"u16">> -> number_variant("U16")
      [] tp = <<"u32">> -> number_variant("U32")
      [] tp = <<"u64">> -> number_variant("U64")
      [] tp = <<"u128">> -> number_variant("U128")
      [] tp = <<"usize">> -> number_variant("Usize")
      [] tp = <<"i8">> -> number_variant("I8")
      [] tp = <<"i16">> -> number_variant("I16")
      [] tp = <<"i32">> -> number_variant("I32")
      [] tp = <<"i64">> -> number_variant("I64")
      [] tp = <<"i128">> -> number_variant("I128")
      [] tp = <<"isize">> -> number_variant("Isize")
      [] tp = <<"f32">> -> number_variant("F32")
      [] tp = <<"f64">> -> number_variant("F64")
      [] OTHER -> Err("does not support as inner type", tp, <<"field", 1>>)

TupleStructsOnly == Err("can be used only with tuple structs.", <<>>, <<"input", 0>>)

parse_type_name_and_inner_type(input) ==
    IF input.data # "Struct"
    THEN TupleStructsOnly
    ELSE IF input.fields # "Unnamed"
    THEN TupleStructsOnly
    ELSE IF input.tys = <<>>
    THEN \* fields_unnamed.unnamed.iter().next().unwrap()
         Panic
    ELSE LET seg == input.tys[1]
         IN  IF seg.kind # "Path"
             THEN Err("requires a simple inner type (e.g. String, i32, etc.)", <<>>, <<"field", 1>>)
             ELSE LET r == inner_type_of(type_path_str(seg))
                  IN  IF r.tag # "Ok" THEN r
                      ELSE Ok([type_name |-> input.ident, inner_type |-> r.value])

----------------------------------------------------------------------------
(* Inputs *)

ValidateAlphabet ==
    { Ident("max_len"), Ident("min_len"), Ident("present"), Ident("bogus"),
      Punct(","), Punct("="), Punct("-"), Literal("3"), Literal("\"s\"") }

\* the rules a written validator list is made of
ValidateRules == {"max_len = 3", "max_len = 10", "min_len = 3", "min_len = 10", "present"}

RuleTokens(r) ==
    CASE r = "max_len = 3" -> <<Ident("max_len"), Punct("="), Literal("3")>>
      [] r = "max_len = 10" -> <<Ident("max_len"), Punct("="), Literal("10")>>
      [] r = "min_len = 3" -> <<Ident("min_len"), Punct("="), Literal("3")>>
      [] r = "min_len = 10" -> <<Ident("min_len"), Punct("="), Literal("10")>>
      [] r = "present" -> <<Ident("present")>>
      [] r = "bogus" -> <<Ident("bogus")>>

RuleValidator(r) ==
    CASE r = "max_len = 3" -> MaxLen(3)
      [] r = "max_len = 10" -> MaxLen(10)
      [] r = "min_len = 3" -> MinLen(3)
      [] r = "min_len = 10" -> MinLen(10)
      [] r = "present" -> Present

Commas(n) == [i \in 1..n |-> Punct(",")]

\* the rules of `written`, `lead` commas before the first and `gap` commas
\* between two
RECURSIVE Render(_, _, _)
Render(written, lead, gap) ==
    IF written = <<>> THEN Commas(lead)
    ELSE Commas(lead) \o RuleTokens(Head(written))
            \o (IF Tail(written) = <<>> THEN <<>> ELSE Render(Tail(written), gap, gap))

SanitizeAlphabet ==
    { Ident("trim"), Ident("with"), Ident("bogus"), Ident("foo"),
      Punct(","), Punct("="), Group("(1 , 2)") }

\* the runs a written sanitizer list is made of
SanitizeRuns == {"trim", "lowercase", "uppercase", "with = foo(1,2)", "with = trim", "with ="}

RunTokens(r) ==
    CASE r = "trim" -> <<Ident("trim")>>
      [] r = "lowercase" -> <<Ident("lowercase")>>
      [] r = "uppercase" -> <<Ident("uppercase")>>
      [] r = "with = foo(1,2)" -> <<Ident("with"), Punct("="), Ident("foo"), Group("(1 , 2)")>>
      [] r = "with = trim" -> <<Ident("with"), Punct("="), Ident("trim")>>
      [] r = "with =" -> <<Ident("with"), Punct("=")>>

RECURSIVE RenderRuns(_)
RenderRuns(written) ==
    IF written = <<>> THEN <<>>
    ELSE IF Len(written) = 1 THEN RunTokens(written[1])
    ELSE RunTokens(Head(written)) \o <<Punct(",")>> \o RenderRuns(Tail(written))

\* the rules and runs the groups of a whole attribute are made of
GroupValidateRules == {"max_len = 3", "max_len = 10", "min_len = 10", "present", "bogus"}
GroupSanitizeRuns == {"trim", "lowercase", "with = foo(1,2)"}

\* the written groups of an attribute: no group name twice
GroupNames ==
    { <<>>, <<"sanitize">>, <<"validate">>, <<"other">>,
      <<"sanitize", "validate">>, <<"validate", "sanitize">>,
      <<"sanitize", "other">>, <<"other", "validate">> }

GroupStream(name, runs, rules) ==
    CASE name = "sanitize" -> Stamp(RenderRuns(runs))
      [] name = "validate" -> Stamp(Render(rules, 0, 1))
      [] OTHER -> <<>>

PathType(tokens) == [kind |-> "Path", tokens |-> tokens]

NumericNames ==
    { "u8", "u16", "u32", "u64", "u128", "usize",
      "i8", "i16", "i32", "i64", "i128", "isize", "f32", "f64" }

FieldTypes ==
    { PathType(<<n>>) : n \in NumericNames \cup {"String", "Foo", "str"} }
    \cup { PathType(<<"std", "::", "string", "::", "String">>),
           [kind |-> "Reference", tokens |-> <<"&", "str">>],
           [kind |-> "Tuple", tokens |-> <<"(", "i32", ",", "i32", ")">>] }

----------------------------------------------------------------------------
(* The state machine *)

\* a call of parse_validate_attrs on any token stream, or on a written list
\* of rules with `lead` commas before the first and `gap` commas between two
ValidateCall(c) ==
    \/ \E k \in 0..MaxTokens : \E t \in [1..k -> ValidateAlphabet] :
            c = [op |-> "validate", family |-> "raw", tokens |-> Stamp(t),
                 written |-> <<>>, lead |-> 0, gap |-> 1]
    \/ \E k \in 0..MaxRules : \E w \in [1..k -> ValidateRules] :
       \E l \in 0..MaxCommas : \E g \in 1..MaxCommas :
            c = [op |-> "validate", family |-> "list", tokens |-> Stamp(Render(w, l, g)),
                 written |-> w, lead |-> l, gap |-> g]

\* a call of parse_sanitize_attrs on any token stream, or on a written list of
\* runs, in a build with or without Span::join
SanitizeCall(c) ==
    \/ \E k \in 0..MaxTokens : \E t \in [1..k -> SanitizeAlphabet] : \E j \in BOOLEAN :
            c = [op |-> "sanitize", family |-> "raw", tokens |-> Stamp(t),
                 written |-> <<>>, can_join |-> j]
    \/ \E k \in 0..MaxRules : \E w \in [1..k -> SanitizeRuns] : \E j \in BOOLEAN :
            c = [op |-> "sanitize", family |-> "list", tokens |-> Stamp(RenderRuns(w)),
                 written |-> w, can_join |-> j]

\* a call of parse_type_name_and_inner_type on a parsed DeriveInput
TypeCall(c) ==
    \/ \E f \in {"Unnamed", "Named"} : \E k \in 0..MaxFields : \E t \in [1..k -> FieldTypes] :
            c = [op |-> "type",
                 input |-> [ident |-> "Name", data |-> "Struct", fields |-> f, tys |-> t]]
    \/ \E d \in {"Struct", "Enum", "Union"} :
            c = [op |-> "type",
                 input |-> [ident |-> "Name", data |-> d, fields |-> "Unit", tys |-> <<>>]]

\* a call of parse_attributes on a whole attribute: its groups in the order
\* written, the sanitize group made of `runs`, the validate group of `rules`
AttributesCall(c) ==
    \E names \in GroupNames :
    \E ks \in 0..MaxGroupRules : \E runs \in [1..ks -> GroupSanitizeRuns] :
    \E kv \in 0..MaxGroupRules : \E rules \in [1..kv -> GroupValidateRules] :
    \E j \in BOOLEAN :
        c = [op |-> "attributes", can_join |-> j,
             input |-> [i \in DOMAIN names |->
                          [name |-> names[i],
                           stream |-> GroupStream(names[i], runs, rules)]]]

Init ==
    /\ \/ ValidateCall(call)
       \/ SanitizeCall(call)
       \/ TypeCall(call)
       \/ AttributesCall(call)
    /\ pc = call.op
    /\ pos = 0
    /\ output = <<>>
    /\ result = Running

\* ValidateRule with the validator put before the ones parsed so far
ValidateRule_prepends ==
    /\ pc = "validate"
    /\ LET r == parse_validation_rule(call.tokens, pos)
       IN  /\ r.tag = "Some"
           /\ pos' = r.rest
           /\ output' = <<r.item>> \o output
    /\ UNCHANGED <<call, pc, result>>

\* one turn of the loop of parse_validate_attrs that yields a validator
ValidateRule ==
    /\ pc = "validate"
    /\ LET r == parse_validation_rule(call.tokens, pos)
       IN  /\ r.tag = "Some"
           /\ pos' = r.rest
           /\ output' = Append(output, r.item)
    /\ UNCHANGED <<call, pc, result>>

\* ValidateReturn with an error ending the loop like the end of the tokens:
\* the validators parsed so far are returned
ValidateReturn_keeps_parsed ==
    /\ pc = "validate"
    /\ LET r == parse_validation_rule(call.tokens, pos)
       IN  /\ r.tag # "Some"
           /\ result' = IF r.tag \in {"None", "Err"} THEN Ok(output) ELSE r
    /\ pc' = "done"
    /\ UNCHANGED <<call, pos, output>>

\* the turn that ends parse_validate_attrs: the tokens are exhausted, the
\* rule parser returns an error, or it aborts
ValidateReturn ==
    /\ pc = "validate"
    /\ LET r == parse_validation_rule(call.tokens, pos)
       IN  /\ r.tag # "Some"
           /\ result' = IF r.tag = "None" THEN Ok(output) ELSE r
    /\ pc' = "done"
    /\ UNCHANGED <<call, pos, output>>

\* one run of parse_sanitize_attrs that yields a sanitizer
SanitizeAttr ==
    /\ pc = "sanitize"
    /\ LET r == split_and_parse_run(call.tokens, pos, call.can_join)
       IN  /\ r.tag = "Some"
           /\ pos' = r.rest
           /\ output' = Append(output, r.item)
    /\ UNCHANGED <<call, pc, result>>

\* the end of parse_sanitize_attrs: no run is left, a run is rejected, or
\* parse_sanitize_attr aborts
SanitizeReturn ==
    /\ pc = "sanitize"
    /\ LET r == split_and_parse_run(call.tokens, pos, call.can_join)
       IN  /\ r.tag # "Some"
           /\ result' = IF r.tag = "None" THEN Ok(output) ELSE r
    /\ pc' = "done"
    /\ UNCHANGED <<call, pos, output>>

\* parse_type_name_and_inner_type, whole
ClassifyType ==
    /\ pc = "type"
    /\ result' = parse_type_name_and_inner_type(call.input)
    /\ pc' = "done"
    /\ UNCHANGED <<call, pos, output>>

\* parse_attributes, first half: parse_raw_attributes; its error ends the
\* call, its value goes on to validate_string_meta
ParseRawAttributes ==
    /\ pc = "attributes"
    /\ LET r == parse_raw_attributes(call.input, call.can_join)
       IN  IF r.tag = "Ok"
           THEN /\ output' = r.value
                /\ pc' = "validate_string_meta"
                /\ UNCHANGED result
           ELSE /\ result' = r
                /\ pc' = "done"
                /\ UNCHANGED output
    /\ UNCHANGED <<call, pos>>

\* parse_attributes, second half: and_then(validate_string_meta)
ValidateStringMeta ==
    /\ pc = "validate_string_meta"
    /\ result' = validate_string_meta(output)
    /\ pc' = "done"
    /\ UNCHANGED <<call, pos, output>>

Next ==
    \/ ValidateRule
    \/ ValidateReturn
    \/ SanitizeAttr
    \/ SanitizeReturn
    \/ ClassifyType
    \/ ParseRawAttributes
    \/ ValidateStringMeta

Spec == Init /\ [][Next]_vars

----------------------------------------------------------------------------
(* Properties *)

Done == pc = "done"

Items(seq) == [i \in DOMAIN seq |-> seq[i].item]

Texts(toks) == [i \in DOMAIN toks |-> toks[i].text]

\* the validators a written list of rules stands for
WrittenValidators(written) == [i \in DOMAIN written |-> RuleValidator(written[i])]

\* the place of the rule name the next turn of the validator loop examines
RuleNamePlace == IF call.tokens[pos + 1].text = "," THEN pos + 2 ELSE pos + 1

AtRuleName(names) ==
    /\ pc = "validate"
    /\ pos < Len(call.tokens)
    /\ RuleNamePlace <= Len(call.tokens)
    /\ call.tokens[RuleNamePlace].kind = "Ident"
    /\ call.tokens[RuleNamePlace].text \in names

\* the token at place i is followed by `=` and a non-negative integer literal
HasNumberArgument(i) ==
    /\ i + 2 <= Len(call.tokens)
    /\ call.tokens[i + 1].kind = "Punct" /\ call.tokens[i + 1].text = "="
    /\ call.tokens[i + 2].kind = "Literal"
    /\ call.tokens[i + 2].text \in {"0", "3", "7", "10", "13"}

\* C1: a list of well-formed validator rules separated by single commas
\* parses to exactly the written validators, in the written order and with
\* the written values, duplicates and max_len < min_len included.
C1_WrittenRulesParse ==
    (Done /\ call.op = "validate" /\ call.family = "list"
          /\ call.lead = 0 /\ call.gap = 1)
    => /\ result.tag = "Ok"
       /\ Items(result.value) = WrittenValidators(call.written)

C1_Witness ==
    /\ Done /\ call.op = "validate" /\ call.family = "list"
    /\ call.lead = 0 /\ call.gap = 1
    /\ call.written = <<"max_len = 10", "min_len = 3", "present">>
    /\ result.tag = "Ok"
    /\ Items(result.value) = <<MaxLen(10), MinLen(3), Present>>

\* C2: a max_len or min_len rule whose name is not followed by `=` and a
\* non-negative integer literal makes the parse end with an error, at that
\* rule.
C2_BadNumberArgumentFails ==
    [][ (AtRuleName({"max_len", "min_len"}) /\ ~HasNumberArgument(RuleNamePlace))
        => (pc' = "done" /\ result'.tag = "Err") ]_vars

C2_Witness ==
    /\ Done /\ call.op = "validate"
    /\ Texts(call.tokens) = <<"max_len", "=", "-", "3">>
    /\ result.tag = "Err"
    /\ result.span = <<3, 3>>

\* some `present` of the stream is immediately followed by `=`
PresentWithArgument ==
    \E i \in 1..(Len(call.tokens) - 1) :
        /\ call.tokens[i].kind = "Ident" /\ call.tokens[i].text = "present"
        /\ call.tokens[i + 1].kind = "Punct" /\ call.tokens[i + 1].text = "="

\* C3: a token stream in which `present` is immediately followed by `=` is
\* never parsed to a validator list: the call returns an error.
C3_PresentTakesNoArgument ==
    (Done /\ call.op = "validate" /\ PresentWithArgument) => result.tag = "Err"

C3_Witness ==
    /\ Done /\ call.op = "validate"
    /\ Texts(call.tokens) = <<"present", "=", "3">>
    /\ output = <<Spanned(Present, <<1, 1>>)>>
    /\ result.tag = "Err"

\* the run of tokens the next turn of the sanitizer split parses
SanitizerRun == SubSeq(call.tokens, pos + 1, RunEnd(call.tokens, pos) - 1)

AtUnknownSanitizer ==
    /\ pc = "sanitize"
    /\ SanitizerRun # <<>>
    /\ SanitizerRun[1].kind = "Ident"
    /\ SanitizerRun[1].text \notin {"trim", "lowercase", "uppercase", "with"}

\* C4: an identifier in rule-name position that is no validation rule, and a
\* leading identifier of a sanitizer run that is no sanitizer, end the parse
\* with an error that names the identifier and carries its span; no rule
\* parsed before it is returned.
C4_UnknownRuleNameFails ==
    [][ /\ AtRuleName({"bogus"})
            => /\ pc' = "done"
               /\ result' = Err("Unknown validation rule",
                                call.tokens[RuleNamePlace].text,
                                <<RuleNamePlace, RuleNamePlace>>)
        /\ AtUnknownSanitizer
            => /\ pc' = "done"
               /\ result' = Err("Unknown sanitizer", SanitizerRun[1].text,
                                <<pos + 1, pos + 1>>) ]_vars

C4_Witness ==
    /\ Done /\ call.op = "validate"
    /\ Texts(call.tokens) = <<"present", ",", "bogus">>
    /\ output # <<>>
    /\ result = Err("Unknown validation rule", "bogus", <<3, 3>>)

\* the decorated type is a tuple struct with exactly one field
SingleFieldTupleStruct ==
    /\ call.input.data = "Struct"
    /\ call.input.fields = "Unnamed"
    /\ Len(call.input.tys) = 1

\* C5: every decorated type that is not a tuple struct with exactly one
\* field is rejected with the tuple-structs-only error at the whole type's
\* span, and a type descriptor is returned only for a one-field tuple struct.
C5_OnlySingleFieldTupleStructs ==
    (Done /\ call.op = "type")
    => /\ ~SingleFieldTupleStruct => result = TupleStructsOnly
       /\ result.tag = "Ok" => SingleFieldTupleStruct

\* a numeric kind of the claim's vocabulary
NumericKind(k) == [inner |-> "Number", number |-> k]

\* the kind each recognised type name stands for
KindOfName ==
    [n \in NumericNames \cup {"String"} |->
        CASE n = "String" -> [inner |-> "String", number |-> "-"]
          [] n = "u8" -> NumericKind("U8")       [] n = "u16" -> NumericKind("U16")
          [] n = "u32" -> NumericKind("U32")     [] n = "u64" -> NumericKind("U64")
          [] n = "u128" -> NumericKind("U128")   [] n = "usize" -> NumericKind("Usize")
          [] n = "i8" -> NumericKind("I8")       [] n = "i16" -> NumericKind("I16")
          [] n = "i32" -> NumericKind("I32")     [] n = "i64" -> NumericKind("I64")
          [] n = "i128" -> NumericKind("I128")   [] n = "isize" -> NumericKind("Isize")
          [] n = "f32" -> NumericKind("F32")     [] n = "f64" -> NumericKind("F64")]

FieldType == call.input.tys[1]

Recognised(ty) ==
    /\ ty.kind = "Path"
    /\ Len(ty.tokens) = 1
    /\ ty.tokens[1] \in DOMAIN KindOfName

ClassifiedAs(ty) ==
    /\ result.tag = "Ok"
    /\ result.value.inner_type = KindOfName[ty.tokens[1]]
    /\ \A n \in DOMAIN KindOfName :
            result.value.inner_type = KindOfName[n] => n = ty.tokens[1]

\* C6: the declared field type of a one-field tuple struct is classified
\* over a closed vocabulary: String as the text kind, each of the fourteen
\* numeric names as its own distinct numeric kind, and every other field
\* type, a path or not, fails with "does not support `<name>` as inner type"
\* naming the type, at the field's span.
C6_InnerTypeClassified ==
    (Done /\ call.op = "type" /\ SingleFieldTupleStruct)
    => IF Recognised(FieldType)
       THEN ClassifiedAs(FieldType)
       ELSE result = Err("does not support as inner type", FieldType.tokens, <<"field", 1>>)

\* a numeric name whose arm names an undeclared variant yields no kind
C6_Witness ==
    /\ Done /\ call.op = "type" /\ SingleFieldTupleStruct
    /\ FieldType = PathType(<<"u8">>)
    /\ result = NoVariant("U8")

\* the sanitizer a written run stands for: for `with`, the run's tokens after
\* the `=`
WrittenSanitizer(r) ==
    CASE r = "trim" -> "Trim"
      [] r = "lowercase" -> "Lowercase"
      [] r = "uppercase" -> "Uppercase"
      [] OTHER -> "With"

WrittenPayload(r) ==
    IF WrittenSanitizer(r) = "With" THEN Tail(Tail(RunTokens(r))) ELSE <<>>

\* C7: a list of well-formed sanitizer runs separated by commas parses to one
\* sanitizer per run, in the written order, and the payload of a `with` run
\* is exactly the run's tokens after the `=`, in order.
C7_WrittenRunsParse ==
    (Done /\ call.op = "sanitize" /\ call.family = "list")
    => /\ result.tag = "Ok"
       /\ Len(result.value) = Len(call.written)
       /\ \A i \in DOMAIN call.written :
            /\ result.value[i].item.rule = WrittenSanitizer(call.written[i])
            /\ Unstamp(result.value[i].item.ts) = WrittenPayload(call.written[i])

C7_Witness ==
    /\ Done /\ call.op = "sanitize" /\ call.family = "list"
    /\ call.written = <<"with = foo(1,2)", "trim">>
    /\ result.tag = "Ok"
    /\ Len(result.value) = 2
    /\ Unstamp(result.value[1].item.ts) = <<Ident("foo"), Group("(1 , 2)")>>
    /\ result.value[2].item = Trim

\* C8: parse_validate_attrs ends every call by returning the validators or an
\* error; it never aborts.
C8_ValidateNeverAborts ==
    (Done /\ call.op = "validate") => result.tag \in {"Ok", "Err"}

\* what the written rules parse to when separated by single commas
SingleCommaResult == parse_validate_attrs(Stamp(Render(call.written, 0, 1)))

SameAsSingleComma ==
    /\ result.tag = "Ok"
    /\ SingleCommaResult.tag = "Ok"
    /\ Items(result.value) = Items(SingleCommaResult.value)

\* C9 as claimed: commas in rule-name position are skipped however many there
\* are, so well-formed rules separated and preceded by any number of commas
\* parse to the same validators as with single commas.
C9_AnyCommasSkipped ==
    (Done /\ call.op = "validate" /\ call.family = "list" /\ call.written # <<>>)
    => SameAsSingleComma

\* the place of the second comma of the first run of two or more commas
SecondComma ==
    IF call.lead >= 2 THEN 2
    ELSE call.lead + Len(RuleTokens(call.written[1])) + 2

\* C9, amended: one comma in rule-name position is skipped and the token
\* after it is taken as the rule name without being tested again.  Rules
\* separated by single commas and preceded by at most one comma parse to the
\* same validators as without the leading comma; two or more consecutive
\* commas before a rule end the parse with an error at the second comma.
C9_OneCommaSkipped ==
    (Done /\ call.op = "validate" /\ call.family = "list" /\ call.written # <<>>)
    => IF call.lead <= 1 /\ (call.gap = 1 \/ Len(call.written) = 1)
       THEN SameAsSingleComma
       ELSE result = Err("Expected identifier", ",", <<SecondComma, SecondComma>>)

C9_Witness ==
    /\ Done /\ call.op = "validate" /\ call.family = "list"
    /\ call.lead = 1 /\ call.gap = 2
    /\ call.written = <<"present", "max_len = 3">>
    /\ output = <<Spanned(Present, <<2, 2>>)>>
    /\ result = Err("Expected identifier", ",", <<4, 4>>)

\* the span lies within the tokens of the input
InInput(span) ==
    /\ 1 <= span[1] /\ span[1] <= span[2] /\ span[2] <= Len(call.tokens)

\* C10: every parsed sanitizer and validator carries the span of the rule-name
\* identifier it was parsed from, and every error of the rule parsers is
\* attributed to a span of the input's tokens, also for a sanitizer run that
\* begins with no identifier and for `with` followed by another token than
\* `=`.
C10_SpansAreOfInputTokens ==
    (call.op \in {"validate", "sanitize"})
    => /\ \A i \in DOMAIN output :
            /\ InInput(output[i].span)
            /\ output[i].span[1] = output[i].span[2]
            /\ call.tokens[output[i].span[1]].kind = "Ident"
       /\ Done => \/ result.tag = "Ok"
                  \/ result.tag = "Err" /\ InInput(result.span)
                  \/ call.op = "validate" /\ result.tag = "Panic"

====
